---- MODULE Spec2Model ----
(***************************************************************************)
(* A model of rust-logi's tiered object-storage layer: the files service   *)
(* (create / download / delete / restore), the storage backends (GCS, R2,  *)
(* S3 with Glacier restore), the detached access-tracking task and the     *)
(* chunked download streamer.                                              *)
(***************************************************************************)
EXTENDS Integers, Sequences, FiniteSets, TLC

(***************************************************************************)
(* Bounds of the model.                                                    *)
(***************************************************************************)
MaxFiles == 2       \* create_file requests that reach the uuid generator
MaxAccess == 4      \* downloads of one file that reach the access recorder
MaxTasks == 2       \* detached access-tracking tasks alive at once
MaxChunks == 5      \* full 64 KiB frames of a streamed buffer (more than the channel holds)
MaxHeader == 2      \* tokens of an x-amz-restore header
MaxDvrTasks == 2    \* detached mp4 download tasks alive at once
MaxDvrKeys == 2     \* mp4 download tasks that reach the uuid generator

None == "None"

(***************************************************************************)
(* Tenants, identifiers and keys.                                          *)
(***************************************************************************)
DEFAULT_ORGANIZATION_ID == "00000000-0000-0000-0000-000000000001"

Orgs == {DEFAULT_ORGANIZATION_ID, "11111111-1111-1111-1111-111111111111"}

\* Uuid::new_v4(): a fresh identifier per request; the n-th request draws the
\* n-th one (two draws never collide).
UuidTable ==
  << "aaaaaaaa-0000-4000-8000-000000000001",
     "aaaaaaaa-0000-4000-8000-000000000002",
     "aaaaaaaa-0000-4000-8000-000000000003",
     "aaaaaaaa-0000-4000-8000-000000000004" >>

Uuids == {UuidTable[i] : i \in 1..MaxFiles}

generate_gcs_key_NoTenant(organization_id, uuid) == uuid

\* format!("{}/{}", organization_id, uuid)
generate_gcs_key(organization_id, uuid) == organization_id \o "/" \o uuid

(***************************************************************************)
(* Byte buffers and base64 (base64::engine::general_purpose::STANDARD).    *)
(* A byte is 0..255.  Base64 text is a sequence of symbols: 0..63 are the  *)
(* alphabet's sextets, PAD is '=', and BADSYM is a character outside the   *)
(* alphabet.                                                               *)
(***************************************************************************)
PAD == 64
BADSYM == 65

RECURSIVE base64_encode(_)
base64_encode(d) ==
  IF Len(d) = 0 THEN << >>
  ELSE IF Len(d) = 1 THEN
    << d[1] \div 4, (d[1] % 4) * 16, PAD, PAD >>
  ELSE IF Len(d) = 2 THEN
    << d[1] \div 4, (d[1] % 4) * 16 + d[2] \div 16, (d[2] % 16) * 4, PAD >>
  ELSE
    << d[1] \div 4, (d[1] % 4) * 16 + d[2] \div 16,
       (d[2] % 16) * 4 + d[3] \div 64, d[3] % 64 >>
    \o base64_encode(SubSeq(d, 4, Len(d)))

IsSextet(c) == c \in 0..63

\* The bytes of one quad of symbols, or no bytes when the quad is not canonical
\* (a symbol outside the alphabet, misplaced padding, non-zero trailing bits).
DecodeQuad(q, last) ==
  IF IsSextet(q[1]) /\ IsSextet(q[2]) /\ IsSextet(q[3]) /\ IsSextet(q[4]) THEN
    << q[1] * 4 + q[2] \div 16, (q[2] % 16) * 16 + q[3] \div 4, (q[3] % 4) * 64 + q[4] >>
  ELSE IF last /\ IsSextet(q[1]) /\ IsSextet(q[2]) /\ IsSextet(q[3]) /\ q[4] = PAD
          /\ q[3] % 4 = 0 THEN
    << q[1] * 4 + q[2] \div 16, (q[2] % 16) * 16 + q[3] \div 4 >>
  ELSE IF last /\ IsSextet(q[1]) /\ IsSextet(q[2]) /\ q[3] = PAD /\ q[4] = PAD
          /\ q[2] % 16 = 0 THEN
    << q[1] * 4 + q[2] \div 16 >>
  ELSE << >>

\* Result<Vec<u8>, DecodeError>: [ok |-> TRUE, data |-> bytes] or [ok |-> FALSE].
RECURSIVE base64_decode(_)
base64_decode(s) ==
  IF Len(s) = 0 THEN [ok |-> TRUE, data |-> << >>]
  ELSE IF Len(s) < 4 THEN [ok |-> FALSE, data |-> << >>]
  ELSE LET q == DecodeQuad(SubSeq(s, 1, 4), Len(s) = 4)
           rest == base64_decode(SubSeq(s, 5, Len(s)))
       IN IF q = << >> \/ ~rest.ok THEN [ok |-> FALSE, data |-> << >>]
          ELSE [ok |-> TRUE, data |-> q \o rest.data]

(***************************************************************************)
(* Restore classification (S3Client::parse_restore_status).                 *)
(* An x-amz-restore header is a sequence of tokens; `contains` looks for a *)
(* token in it.  Option<&str> is << >> (None) or << header >> (Some).      *)
(***************************************************************************)
NoHeader == << >>
Some(x) == << x >>
OngoingTrue == "ongoing-request=\"true\""
OngoingFalse == "ongoing-request=\"false\""
ExpiryDate == "expiry-date=\"...\""
OtherToken == "x"

HeaderTokens == {OngoingTrue, OngoingFalse, ExpiryDate, OtherToken}

contains(header, pat) == \E i \in 1..Len(header) : header[i] = pat

RestoreStatus == {"NotNeeded", "InProgress", "Completed", "Required"}

ArchivalClasses == {"GLACIER", "DEEP_ARCHIVE", "GLACIER_IR"}

parse_restore_status_SwapsMarkers(storage_class, restore_header) ==
  IF storage_class \notin ArchivalClasses THEN "NotNeeded"
  ELSE IF restore_header = NoHeader THEN "Required"
  ELSE IF contains(restore_header[1], OngoingFalse) THEN "InProgress"
  ELSE IF contains(restore_header[1], OngoingTrue) THEN "Completed"
  ELSE "Required"

parse_restore_status(storage_class, restore_header) ==
  LET needs_restore == storage_class \in ArchivalClasses
  IN IF ~needs_restore THEN "NotNeeded"
     ELSE IF restore_header = NoHeader THEN "Required"
     ELSE IF contains(restore_header[1], OngoingTrue) THEN "InProgress"
     ELSE IF contains(restore_header[1], OngoingFalse) THEN "Completed"
     ELSE "Required"

(***************************************************************************)
(* Chunking (slice::chunks).  A chunk is a slice of the buffer: the bytes  *)
(* data[lo..hi] (lo inclusive, hi exclusive, counted from 0).              *)
(***************************************************************************)
chunk_size == 65536

Min(a, b) == IF a < b THEN a ELSE b

\* Chunks::next: a k-th chunk (k = 0, 1, ...) exists while bytes remain past
\* the first k chunks of a buffer of len bytes
HasChunk(len, k) == k * chunk_size < len

ChunkAt_DropsTail(len, k) ==
  [lo |-> k * chunk_size, hi |-> Min((k + 1) * chunk_size, len - 1)]

\* the k-th chunk of a buffer of len bytes
ChunkAt(len, k) ==
  [lo |-> k * chunk_size, hi |-> Min((k + 1) * chunk_size, len)]

\* <[u8]>::len of a slice
SliceLen(slice) == slice.hi - slice.lo

\* <[u8]>::to_vec: the bytes of a slice of data
to_vec(data, slice) == SubSeq(data, slice.lo + 1, slice.hi)

next_offset_CountsChunks(offset, chunk) == offset + 1

\* offset += chunk.len() as i64
next_offset(offset, chunk) == offset + SliceLen(chunk)

\* The frames the chunk loop builds from the k-th chunk on, offset being the
\* loop's running offset: FileChunk { data, offset, total_size }.
RECURSIVE FramesFrom(_, _, _)
FramesFrom(data, k, offset) ==
  IF ~HasChunk(Len(data), k) THEN << >>
  ELSE LET chunk == ChunkAt(Len(data), k)
       IN << [data |-> to_vec(data, chunk), offset |-> offset,
              total_size |-> Len(data)] >>
          \o FramesFrom(data, k + 1, next_offset(offset, chunk))

(***************************************************************************)
(* State.                                                                  *)
(***************************************************************************)
VARIABLES
  storage,     \* FilesServiceImpl.storage: "none" or the configured backend
  files,       \* the files table: uuid -> row
  objects,     \* the buckets: key -> object
  tasks,       \* the detached access-tracking tasks: a bag, task -> how many
  resp,        \* what the step just taken handed out: a response, or a log line
  p_class,     \* classification: the storage class handed to parse_restore_status
  p_header,    \* classification: the x-amz-restore header handed to it
  p_status,    \* classification: its result (None before the call)
  s_data,      \* streamer: the buffer in hand, as the slice data[0..len]
  s_k,         \* streamer: index of the chunk the producer is at
  s_offset,    \* streamer: the producer's running offset
  s_pc,        \* streamer: "send" | "done" (loop ended) | "broken" (send failed)
  s_chan,      \* streamer: the bounded channel
  s_rx,        \* streamer: "open" | "dropped" (consumer disconnected)
  s_recv,      \* streamer: frames the consumer took, in order
  dvr_rows,    \* DVR archive: the dvr_notifications table, mp4_url -> row
  dvr_tasks,   \* DVR archive: the detached download tasks, a bag
  dvr_keys,    \* DVR archive: how many identifiers the tasks have drawn
  dvr_resp,    \* DVR archive: what the step just taken handed out or logged
  user_organizations,  \* auth: the membership table, rows (user, org, role)
  auth_resp    \* auth: the request the middleware just took and what it did

fsVars == << storage, files, objects, tasks, resp >>
classifyVars == << p_class, p_header, p_status >>
streamVars == << s_data, s_k, s_offset, s_pc, s_chan, s_rx, s_recv >>
dvrVars == << dvr_rows, dvr_tasks, dvr_keys, dvr_resp >>
authVars == << user_organizations, auth_resp >>
vars == << fsVars, classifyVars, streamVars, dvrVars, authVars >>

Backends == {"gcs", "r2", "s3"}

\* Option<String> columns: << >> is NULL, << v >> is a value.
Null == << >>

\* Request payloads.
PDF == "application/pdf"
PNG == "image/png"
FileTypes == {PDF, PNG}
Contents == { << >>, << 1, 2 >> }
BlobInputs == { Null, Some(base64_encode(<< 1, 2 >>)), Some(<< BADSYM >>) }

DvrIdle ==
  /\ dvr_rows = << >> /\ dvr_tasks = << >> /\ dvr_keys = 0
  /\ dvr_resp = [op |-> None, status |-> None]

AuthIdle == user_organizations = {} /\ auth_resp = [op |-> None]

ClassifyIdle == p_class = None /\ p_header = NoHeader /\ p_status = None

StreamIdle ==
  /\ s_data = [lo |-> 0, hi |-> 0] /\ s_k = 0 /\ s_offset = 0 /\ s_pc = "done"
  /\ s_chan = << >> /\ s_rx = "open" /\ s_recv = << >>

(***************************************************************************)
(* Storage backends.                                                       *)
(***************************************************************************)
Exists(b, key) == key \in DOMAIN objects /\ objects[key].backend = b

\* S3 serves GetObject / CopyObject of an archived object only while a restored
\* copy is available.
S3Readable(o) ==
  parse_restore_status(o.storage_class, o.restore) \in {"NotNeeded", "Completed"}

\* get_object_info taking every class below STANDARD to need a restore.
gcs_get_object_info_ColdNeedsRestore(o) ==
  [storage_class |-> o.storage_class,
   restore_status |-> IF o.storage_class = "STANDARD" THEN "NotNeeded" ELSE "Required"]

\* ObjectInfo { storage_class, restore_status, .. } as each backend builds it
gcs_get_object_info(o) ==
  [storage_class |-> o.storage_class, restore_status |-> "NotNeeded"]

r2_get_object_info(o) ==
  [storage_class |-> "STANDARD", restore_status |-> "NotNeeded"]

s3_get_object_info(o) ==
  [storage_class |-> o.storage_class,
   restore_status |-> parse_restore_status(o.storage_class, o.restore)]

get_object_info(b, o) ==
  IF b = "gcs" THEN gcs_get_object_info(o)
  ELSE IF b = "r2" THEN r2_get_object_info(o)
  ELSE s3_get_object_info(o)

\* Whether the backend can answer download(key) with the bytes.
CanDownload(b, key) ==
  /\ Exists(b, key)
  /\ b = "s3" => S3Readable(objects[key])

\* The object a successful upload leaves under the key.
Uploaded(b, data) ==
  [backend |-> b, data |-> data, storage_class |-> "STANDARD", restore |-> NoHeader]

(***************************************************************************)
(* Helpers of the handlers.                                                *)
(***************************************************************************)
\* What a step hands to a caller.  op, uuid: the request; status: the
\* tonic::Code of the response; calls: the backend calls the handler issued,
\* in order; info: the ObjectInfo it read; frames: the frames of the returned
\* stream; spawned: whether it started an access-tracking task.
ReplyInfo(op, uuid, status, calls, info, frames, spawned) ==
  [op |-> op, uuid |-> uuid, status |-> status, calls |-> calls, info |-> info,
   frames |-> frames, spawned |-> spawned]

NoInfo == [storage_class |-> None, restore_status |-> None]

Reply(op, uuid, status, calls, frames, spawned) ==
  ReplyInfo(op, uuid, status, calls, NoInfo, frames, spawned)

NoResp == Reply(None, None, None, << >>, << >>, FALSE)

\* What the task's first step leaves in the log: the counts recorded (or the
\* error), the class it was started with, and whether it goes on to promote.
TaskLog(uuid, status, recent_7day_count, storage_class, promotes) ==
  [op |-> "record_access", uuid |-> uuid, status |-> status, calls |-> << >>,
   info |-> [storage_class |-> storage_class, restore_status |-> None],
   frames |-> << >>, spawned |-> FALSE, count |-> recent_7day_count,
   promotes |-> promotes]

Call(fn, key) == [fn |-> fn, key |-> key]

\* What a request_restore call hands back and met: the AppResult, the reply of
\* RestoreObject, and the state of the object when the call arrived.
RestoreLog(key, status, reply, info) ==
  [op |-> "request_restore", uuid |-> key, status |-> status,
   calls |-> << Call("restore_object", key) >>, info |-> info, frames |-> << >>,
   spawned |-> FALSE, reply |-> reply]

UsedUuids ==
  DOMAIN files \cup
  {u \in Uuids : \E o \in Orgs : generate_gcs_key(o, u) \in DOMAIN objects}

\* Uuid::new_v4()
FreshUuid == UuidTable[CHOOSE i \in 1..MaxFiles :
                 /\ UuidTable[i] \notin UsedUuids
                 /\ \A j \in 1..(i - 1) : UuidTable[j] \in UsedUuids]

\* A row as INSERT INTO files leaves it (columns not named take their default).
NewRow(organization_id, file_type, blob, s3_key, storage_class) ==
  [organization_id |-> organization_id, file_type |-> file_type, blob |-> blob,
   s3_key |-> s3_key, storage_class |-> storage_class, deleted |-> FALSE,
   promoted |-> FALSE, recent |-> 0, attached |-> FALSE]

Put(f, k, v) == [x \in DOMAIN f \cup {k} |-> IF x = k THEN v ELSE f[x]]

\* The detached tasks are a bag: task -> how many of it are alive.
NoTasks == << >>

Spawn(bag, task) ==
  IF task \in DOMAIN bag THEN [bag EXCEPT ![task] = @ + 1] ELSE Put(bag, task, 1)

Finish(bag, task) ==
  IF bag[task] > 1 THEN [bag EXCEPT ![task] = @ - 1]
  ELSE [x \in DOMAIN bag \ {task} |-> bag[x]]

RECURSIVE Sum(_, _)
Sum(f, S) ==
  IF S = {} THEN 0 ELSE LET x == CHOOSE y \in S : TRUE IN f[x] + Sum(f, S \ {x})

Alive == Sum(tasks, DOMAIN tasks)

Pending(uuid) ==
  Sum(tasks, {task \in DOMAIN tasks : task.pc = "record" /\ task.uuid = uuid})

(***************************************************************************)
(* create_file.  fail names the await that fails: "db" (the connection or  *)
(* set_current_organization), "upload", "insert", or "none".               *)
(***************************************************************************)
\* The INSERT of the storage branch placed before the upload.
create_remote_InsertFirst(organization_id, uuid, file_type, data, fail) ==
  LET gcs_key == generate_gcs_key(organization_id, uuid)
      call == << Call("upload", gcs_key) >>
      row == NewRow(organization_id, file_type, Null, Some(gcs_key), "STANDARD")
  IN IF fail = "insert" THEN
       /\ resp' = Reply("create_file", uuid, "internal", << >>, << >>, FALSE)
       /\ UNCHANGED << files, objects >>
     ELSE IF fail = "upload" THEN
       /\ files' = Put(files, uuid, row)
       /\ resp' = Reply("create_file", uuid, "internal", call, << >>, FALSE)
       /\ UNCHANGED objects
     ELSE
       /\ files' = Put(files, uuid, row)
       /\ objects' = Put(objects, gcs_key, Uploaded(storage, data))
       /\ resp' = Reply("create_file", uuid, "ok", call, << >>, FALSE)

\* The storage branch once the bytes are in hand: upload, then INSERT.
create_remote(organization_id, uuid, file_type, data, fail) ==
  LET gcs_key == generate_gcs_key(organization_id, uuid)
      call == << Call("upload", gcs_key) >>
      row == NewRow(organization_id, file_type, Null, Some(gcs_key), "STANDARD")
  IN IF fail = "upload" THEN
       /\ resp' = Reply("create_file", uuid, "internal", call, << >>, FALSE)
       /\ UNCHANGED << files, objects >>
     ELSE IF fail = "insert" THEN
       /\ objects' = Put(objects, gcs_key, Uploaded(storage, data))
       /\ resp' = Reply("create_file", uuid, "internal", call, << >>, FALSE)
       /\ UNCHANGED files
     ELSE
       /\ objects' = Put(objects, gcs_key, Uploaded(storage, data))
       /\ files' = Put(files, uuid, row)
       /\ resp' = Reply("create_file", uuid, "ok", call, << >>, FALSE)

\* The blob a blob-branch INSERT binds: the content base64-encoded, or the
\* caller's blob_base64 as it came.
inline_blob(content, blob_base64) ==
  IF content # << >> THEN Some(base64_encode(content)) ELSE blob_base64

create_inline(organization_id, uuid, file_type, content, blob_base64, fail) ==
  IF fail = "insert" THEN
    /\ resp' = Reply("create_file", uuid, "internal", << >>, << >>, FALSE)
    /\ UNCHANGED << files, objects >>
  ELSE
    /\ files' = Put(files, uuid,
                    NewRow(organization_id, file_type,
                           inline_blob(content, blob_base64), Null, None))
    /\ resp' = Reply("create_file", uuid, "ok", << >>, << >>, FALSE)
    /\ UNCHANGED objects

create_file(organization_id, file_type, content, blob_base64, fail) ==
  /\ UsedUuids # Uuids
  /\ fail = "upload" => storage # "none"
  /\ LET uuid == FreshUuid
     IN IF fail = "db" THEN
          /\ resp' = Reply("create_file", uuid, "internal", << >>, << >>, FALSE)
          /\ UNCHANGED << files, objects >>
        ELSE IF storage # "none" THEN
          IF content # << >> THEN
            create_remote(organization_id, uuid, file_type, content, fail)
          ELSE IF blob_base64 # Null THEN
            LET dec == base64_decode(blob_base64[1])
            IN IF ~dec.ok THEN
                 /\ resp' = Reply("create_file", uuid, "invalid_argument", << >>, << >>, FALSE)
                 /\ UNCHANGED << files, objects >>
               ELSE create_remote(organization_id, uuid, file_type, dec.data, fail)
          ELSE
            /\ resp' = Reply("create_file", uuid, "invalid_argument", << >>, << >>, FALSE)
            /\ UNCHANGED << files, objects >>
        ELSE create_inline(organization_id, uuid, file_type, content, blob_base64, fail)
  /\ UNCHANGED << storage, tasks, classifyVars, streamVars, dvrVars, authVars >>

(***************************************************************************)
(* download_file.  fail names the await that fails: "db" (the connection   *)
(* or the SELECT), "info" (get_object_info), "download", or "none".        *)
(***************************************************************************)
\* The lookup leaving out the rows with deleted_at set.
ByUuid_NotDeleted(uuid) == {u \in DOMAIN files : u = uuid /\ ~files[u].deleted}

\* SELECT .. FROM files WHERE uuid = $1::uuid: the rows fetch_optional finds
ByUuid(uuid) == {u \in DOMAIN files : u = uuid}

NewTask(uuid, gcs_key, storage_class) ==
  [pc |-> "record", uuid |-> uuid, key |-> gcs_key, storage_class |-> storage_class]

\* The storage branch: get_object_info, download, spawn the task, stream.
download_remote(uuid, gcs_key, fail) ==
  IF fail = "info" \/ ~Exists(storage, gcs_key) THEN
    /\ resp' = Reply("download_file", uuid, "internal",
                     << Call("get_object_info", gcs_key) >>, << >>, FALSE)
    /\ UNCHANGED tasks
  ELSE
    LET info == get_object_info(storage, objects[gcs_key])
        calls == << Call("get_object_info", gcs_key), Call("download", gcs_key) >>
    IN IF fail = "download" \/ ~CanDownload(storage, gcs_key) THEN
         /\ resp' = ReplyInfo("download_file", uuid, "internal", calls, info, << >>, FALSE)
         /\ UNCHANGED tasks
       ELSE
         /\ tasks' = Spawn(tasks, NewTask(uuid, gcs_key, info.storage_class))
         /\ resp' = ReplyInfo("download_file", uuid, "ok", calls, info,
                              FramesFrom(objects[gcs_key].data, 0, 0), TRUE)

\* The blob branch: decode, stream; no task.
download_blob(uuid, blob) ==
  LET dec == base64_decode(blob)
  IN /\ IF ~dec.ok THEN
          resp' = Reply("download_file", uuid, "internal", << >>, << >>, FALSE)
        ELSE
          resp' = Reply("download_file", uuid, "ok", << >>,
                        FramesFrom(dec.data, 0, 0), FALSE)
     /\ UNCHANGED tasks

\* A record without servable content answered as a missing one.
empty_stream_NotFound(uuid) ==
  Reply("download_file", uuid, "not_found", << >>, << >>, FALSE)

\* Neither branch taken: Ok(ReceiverStream::new(rx)) with the sender dropped,
\* a stream that closes without a frame.
empty_stream(uuid) ==
  Reply("download_file", uuid, "ok", << >>, << >>, FALSE)

download_file(uuid, fail) ==
  /\ IF fail = "db" THEN
       /\ resp' = Reply("download_file", uuid, "internal", << >>, << >>, FALSE)
       /\ UNCHANGED tasks
     ELSE IF ByUuid(uuid) = {} THEN
       /\ fail = "none"
       /\ resp' = Reply("download_file", uuid, "not_found", << >>, << >>, FALSE)
       /\ UNCHANGED tasks
     ELSE
       LET file == files[uuid]
       IN IF storage # "none" /\ file.s3_key # Null THEN
            /\ Alive < MaxTasks
            /\ file.recent + Pending(uuid) < MaxAccess
            /\ download_remote(uuid, file.s3_key[1], fail)
          ELSE IF file.blob # Null THEN
            /\ fail = "none"
            /\ download_blob(uuid, file.blob[1])
          ELSE
            /\ fail = "none"
            /\ resp' = empty_stream(uuid)
            /\ UNCHANGED tasks
  /\ UNCHANGED << storage, files, objects, classifyVars, streamVars, dvrVars, authVars >>

(***************************************************************************)
(* The detached task of record_access_and_maybe_promote, one step per      *)
(* await: record_file_access, rewrite_to_standard, the UPDATE.             *)
(***************************************************************************)
PROMOTE_THRESHOLD == 3

\* The threshold alone deciding, whatever the class.
should_promote_IgnoresClass(recent_7day_count, storage_class) ==
  recent_7day_count >= PROMOTE_THRESHOLD

should_promote_AtFour(recent_7day_count, storage_class) ==
  recent_7day_count > PROMOTE_THRESHOLD /\ storage_class # "STANDARD"

should_promote(recent_7day_count, storage_class) ==
  recent_7day_count >= PROMOTE_THRESHOLD /\ storage_class # "STANDARD"

\* record_file_access(uuid, organization_id, storage_class): counts this access
\* and returns the counts; recent is the count within the trailing 7 days (the
\* weekly and the lifetime count are read by nothing but a log line).
record_file_access(row) ==
  [row EXCEPT !.recent = @ + 1]

TaskRecord(task, ok) ==
  /\ task \in DOMAIN tasks /\ task.pc = "record"
  /\ IF ok /\ task.uuid \in DOMAIN files THEN
       LET row == record_file_access(files[task.uuid])
       IN /\ files' = [files EXCEPT ![task.uuid] = row]
          /\ tasks' = IF should_promote(row.recent, task.storage_class)
                      THEN Spawn(Finish(tasks, task), [task EXCEPT !.pc = "rewrite"])
                      ELSE Finish(tasks, task)
          /\ resp' = TaskLog(task.uuid, "ok", row.recent, task.storage_class,
                              should_promote(row.recent, task.storage_class))
     ELSE
       /\ tasks' = Finish(tasks, task)
       /\ resp' = TaskLog(task.uuid, "error", 0, task.storage_class, FALSE)
       /\ UNCHANGED files
  /\ UNCHANGED << storage, objects, classifyVars, streamVars, dvrVars, authVars >>

\* rewrite_to_standard of each backend: the object it leaves under the key
gcs_rewrite_to_standard(o) == o

r2_rewrite_to_standard(o) == o

\* S3Client::copy_to_standard: CopyObject onto itself with class STANDARD
s3_copy_to_standard(o) ==
  [o EXCEPT !.storage_class = "STANDARD", !.restore = NoHeader]

rewrite_to_standard(b, o) ==
  IF b = "gcs" THEN gcs_rewrite_to_standard(o)
  ELSE IF b = "r2" THEN r2_rewrite_to_standard(o)
  ELSE s3_copy_to_standard(o)

\* Whether the call returns Ok: the warm backends' is a no-op that cannot fail.
RewriteSucceeds(b, key, ok) ==
  b = "s3" => (ok /\ Exists(b, key) /\ S3Readable(objects[key]))

\* The task going on to the UPDATE whatever rewrite_to_standard returned.
TaskRewrite_UpdatesOnError(task, ok) ==
  /\ task \in DOMAIN tasks /\ task.pc = "rewrite"
  /\ storage = "s3" \/ ok
  /\ objects' = IF RewriteSucceeds(storage, task.key, ok) /\ task.key \in DOMAIN objects
                THEN [objects EXCEPT ![task.key] = rewrite_to_standard(storage, @)]
                ELSE objects
  /\ tasks' = Spawn(Finish(tasks, task), [task EXCEPT !.pc = "update"])
  /\ resp' = Reply("rewrite_to_standard", task.uuid,
                   IF RewriteSucceeds(storage, task.key, ok) THEN "ok" ELSE "error",
                   << Call("rewrite_to_standard", task.key) >>, << >>, FALSE)
  /\ UNCHANGED << storage, files, classifyVars, streamVars, dvrVars, authVars >>

TaskRewrite(task, ok) ==
  /\ task \in DOMAIN tasks /\ task.pc = "rewrite"
  /\ storage = "s3" \/ ok
  /\ IF RewriteSucceeds(storage, task.key, ok) THEN
       /\ objects' = IF task.key \in DOMAIN objects
                     THEN [objects EXCEPT ![task.key] = rewrite_to_standard(storage, @)]
                     ELSE objects
       /\ tasks' = Spawn(Finish(tasks, task), [task EXCEPT !.pc = "update"])
       /\ resp' = Reply("rewrite_to_standard", task.uuid, "ok",
                        << Call("rewrite_to_standard", task.key) >>, << >>, FALSE)
     ELSE
       /\ tasks' = Finish(tasks, task)
       /\ resp' = Reply("rewrite_to_standard", task.uuid, "error",
                        << Call("rewrite_to_standard", task.key) >>, << >>, FALSE)
       /\ UNCHANGED objects
  /\ UNCHANGED << storage, files, classifyVars, streamVars, dvrVars, authVars >>

\* The UPDATE also clearing the key column.
promote_row_DropsKey(row) ==
  [row EXCEPT !.storage_class = "STANDARD", !.promoted = TRUE, !.s3_key = Null]

\* UPDATE files SET storage_class = 'STANDARD', promoted_to_standard_at = now
promote_row(row) == [row EXCEPT !.storage_class = "STANDARD", !.promoted = TRUE]

\* The UPDATE writing the class the task read at download time.
TaskUpdate_WritesCapturedClass(task, ok) ==
  /\ task \in DOMAIN tasks /\ task.pc = "update"
  /\ files' = IF ok /\ task.uuid \in DOMAIN files
              THEN [files EXCEPT ![task.uuid].storage_class = task.storage_class,
                                 ![task.uuid].promoted = TRUE]
              ELSE files
  /\ tasks' = Finish(tasks, task)
  /\ resp' = Reply("promote_update", task.uuid, IF ok THEN "ok" ELSE "error",
                   << >>, << >>, FALSE)
  /\ UNCHANGED << storage, objects, classifyVars, streamVars, dvrVars, authVars >>

\* The UPDATE taken to have gone through whatever its result.
TaskUpdate_IgnoresError(task, ok) ==
  /\ task \in DOMAIN tasks /\ task.pc = "update"
  /\ files' = IF task.uuid \in DOMAIN files
              THEN [files EXCEPT ![task.uuid] = promote_row(@)]
              ELSE files
  /\ tasks' = Finish(tasks, task)
  /\ resp' = Reply("promote_update", task.uuid, IF ok THEN "ok" ELSE "error",
                   << >>, << >>, FALSE)
  /\ UNCHANGED << storage, objects, classifyVars, streamVars, dvrVars, authVars >>

TaskUpdate(task, ok) ==
  /\ task \in DOMAIN tasks /\ task.pc = "update"
  /\ files' = IF ok /\ task.uuid \in DOMAIN files
              THEN [files EXCEPT ![task.uuid] = promote_row(@)]
              ELSE files
  /\ tasks' = Finish(tasks, task)
  /\ resp' = Reply("promote_update", task.uuid, IF ok THEN "ok" ELSE "error",
                   << >>, << >>, FALSE)
  /\ UNCHANGED << storage, objects, classifyVars, streamVars, dvrVars, authVars >>

(***************************************************************************)
(* delete_file: UPDATE files SET deleted_at = now WHERE uuid = ...         *)
(***************************************************************************)
\* delete_file also removing the object from the bucket (backend delete).
delete_file_Hard(uuid, db_ok) ==
  /\ IF ~db_ok THEN
       /\ resp' = Reply("delete_file", uuid, "internal", << >>, << >>, FALSE)
       /\ UNCHANGED << files, objects >>
     ELSE IF uuid \in DOMAIN files /\ files[uuid].s3_key # Null /\ storage # "none" THEN
       LET key == files[uuid].s3_key[1]
       IN /\ files' = [files EXCEPT ![uuid].deleted = TRUE]
          /\ objects' = [k \in DOMAIN objects \ {key} |-> objects[k]]
          /\ resp' = Reply("delete_file", uuid, "ok", << Call("delete", key) >>,
                           << >>, FALSE)
     ELSE
       /\ files' = IF uuid \in DOMAIN files
                   THEN [files EXCEPT ![uuid].deleted = TRUE] ELSE files
       /\ resp' = Reply("delete_file", uuid, "ok", << >>, << >>, FALSE)
       /\ UNCHANGED objects
  /\ UNCHANGED << storage, tasks, classifyVars, streamVars, dvrVars, authVars >>

delete_file(uuid, db_ok) ==
  /\ IF ~db_ok THEN
       /\ resp' = Reply("delete_file", uuid, "internal", << >>, << >>, FALSE)
       /\ UNCHANGED files
     ELSE
       /\ files' = IF uuid \in DOMAIN files
                   THEN [files EXCEPT ![uuid].deleted = TRUE] ELSE files
       /\ resp' = Reply("delete_file", uuid, "ok", << >>, << >>, FALSE)
  /\ UNCHANGED << storage, objects, tasks, classifyVars, streamVars, dvrVars, authVars >>

(***************************************************************************)
(* The listings: list_files, list_not_attached_files and                   *)
(* list_recent_uploaded_files.  Each is one SELECT over the files table,   *)
(* newest first.                                                           *)
(***************************************************************************)
LIST_LIMIT == 50

\* Self::model_to_proto of a selected row (the listings select NULL as blob)
model_to_proto(uuid, row, with_blob) ==
  [uuid |-> uuid, file_type |-> row.file_type, deleted |-> row.deleted,
   blob |-> IF with_blob THEN row.blob ELSE Null, s3_key |-> row.s3_key,
   storage_class |-> row.storage_class]

\* What a listing hands back: the status and the files of the response.
ListLog(op, status, listed) ==
  [op |-> op, uuid |-> None, status |-> status, calls |-> << >>, info |-> NoInfo,
   frames |-> << >>, spawned |-> FALSE, files |-> listed]

NotDeleted_All(row) == TRUE

\* WHERE deleted_at IS NULL
NotDeleted(row) == ~row.deleted

\* ORDER BY created_at DESC: the i-th identifier drawn is the i-th created
RECURSIVE NewestFirst(_, _)
NewestFirst(S, i) ==
  IF i = 0 THEN << >>
  ELSE (IF UuidTable[i] \in S THEN << UuidTable[i] >> ELSE << >>)
       \o NewestFirst(S, i - 1)

\* fetch_all and the map to protos
Fetched(S) ==
  LET ids == NewestFirst(S, Len(UuidTable))
  IN [i \in 1..Len(ids) |-> model_to_proto(ids[i], files[ids[i]], FALSE)]

list_files(type_filter, db_ok) ==
  /\ resp' =
       IF ~db_ok THEN ListLog("list_files", "internal", << >>)
       ELSE ListLog("list_files", "ok",
              Fetched({u \in DOMAIN files :
                         /\ NotDeleted(files[u])
                         /\ type_filter # Null => files[u].file_type = type_filter[1]}))
  /\ UNCHANGED << storage, files, objects, tasks, classifyVars, streamVars, dvrVars, authVars >>

list_not_attached_files(db_ok) ==
  /\ resp' =
       IF ~db_ok THEN ListLog("list_not_attached_files", "internal", << >>)
       ELSE ListLog("list_not_attached_files", "ok",
              Fetched({u \in DOMAIN files :
                         NotDeleted(files[u]) /\ ~files[u].attached}))
  /\ UNCHANGED << storage, files, objects, tasks, classifyVars, streamVars, dvrVars, authVars >>

list_recent_uploaded_files(db_ok) ==
  /\ resp' =
       IF ~db_ok THEN ListLog("list_recent_uploaded_files", "internal", << >>)
       ELSE LET all == Fetched({u \in DOMAIN files : NotDeleted(files[u])})
            IN ListLog("list_recent_uploaded_files", "ok",
                       SubSeq(all, 1, Min(Len(all), LIST_LIMIT)))
  /\ UNCHANGED << storage, files, objects, tasks, classifyVars, streamVars, dvrVars, authVars >>

\* What get_file hands back: the status and the file of the FileResponse.
GetLog(uuid, status, file) ==
  [op |-> "get_file", uuid |-> uuid, status |-> status, calls |-> << >>,
   info |-> NoInfo, frames |-> << >>, spawned |-> FALSE, file |-> file]

get_file(uuid, include_blob, db_ok) ==
  /\ resp' =
       IF ~db_ok THEN GetLog(uuid, "internal", Null)
       ELSE IF ByUuid(uuid) = {} THEN GetLog(uuid, "not_found", Null)
       ELSE GetLog(uuid, "ok", Some(model_to_proto(uuid, files[uuid], include_blob)))
  /\ UNCHANGED << storage, files, objects, tasks, classifyVars, streamVars, dvrVars, authVars >>

\* The car inspection service attaches a file to an inspection
\* (INSERT INTO car_inspection_files_a).
Attach(uuid) ==
  /\ uuid \in DOMAIN files /\ ~files[uuid].attached
  /\ files' = [files EXCEPT ![uuid].attached = TRUE]
  /\ resp' = NoResp
  /\ UNCHANGED << storage, objects, tasks, classifyVars, streamVars, dvrVars, authVars >>

(***************************************************************************)
(* impl From<AppError> for Status: the tonic::Code an AppError becomes.    *)
(***************************************************************************)
AppErrors == {"Database", "NotFound", "InvalidInput", "Internal", "Storage",
              "AwsSdk", "RestoreInProgress", "RestoreRequired"}

from_AppError(err) ==
  CASE err \in {"Database", "Internal", "Storage", "AwsSdk"} -> "internal"
    [] err = "NotFound" -> "not_found"
    [] err = "InvalidInput" -> "invalid_argument"
    [] err = "RestoreInProgress" -> "unavailable"
    [] err = "RestoreRequired" -> "failed_precondition"

(***************************************************************************)
(* S3Client::request_restore, called on the S3 bucket directly.            *)
(* The reply of RestoreObject: "accepted" (a restore starts), "ok" (the    *)
(* restored copy's lifetime is extended), "RestoreAlreadyInProgress", or   *)
(* another failure.                                                        *)
(***************************************************************************)
RestoreObjectReply(key, ok) ==
  IF ~(ok /\ Exists("s3", key)) THEN "ServiceError"
  ELSE LET st == parse_restore_status(objects[key].storage_class, objects[key].restore)
       IN IF st = "Required" THEN "accepted"
          ELSE IF st = "InProgress" THEN "RestoreAlreadyInProgress"
          ELSE IF st = "Completed" THEN "ok"
          ELSE "InvalidObjectState"

\* The AppResult<()> request_restore returns for a reply of the backend.
request_restore_result(reply) ==
  IF reply \in {"accepted", "ok"} THEN "Ok"
  ELSE IF reply = "RestoreAlreadyInProgress" THEN "Err(RestoreInProgress)"
  ELSE "Err(Storage)"

\* request_restore sending RestoreObject again when the backend refused it.
request_restore_Retries(key, ok) ==
  /\ storage = "s3"
  /\ key \in DOMAIN objects
  /\ LET reply == RestoreObjectReply(key, ok)
         log == RestoreLog(key, request_restore_result(reply), reply,
                           s3_get_object_info(objects[key]))
     IN /\ objects' = IF reply = "accepted"
                      THEN [objects EXCEPT ![key].restore = Some(<< OngoingTrue >>)]
                      ELSE objects
        /\ resp' = IF reply \in {"accepted", "ok"} THEN log
                   ELSE [log EXCEPT !.calls = @ \o @]
  /\ UNCHANGED << storage, files, tasks, classifyVars, streamVars, dvrVars, authVars >>

request_restore(key, ok) ==
  /\ storage = "s3"
  /\ key \in DOMAIN objects
  /\ LET reply == RestoreObjectReply(key, ok)
     IN /\ objects' = IF reply = "accepted"
                      THEN [objects EXCEPT ![key].restore = Some(<< OngoingTrue >>)]
                      ELSE objects
        /\ resp' = RestoreLog(key, request_restore_result(reply), reply,
                              s3_get_object_info(objects[key]))
  /\ UNCHANGED << storage, files, tasks, classifyVars, streamVars, dvrVars, authVars >>

(***************************************************************************)
(* restore_file.  fail names the await that fails: "db" (the connection or *)
(* the SELECT), "info" (get_object_info), or "none".                       *)
(***************************************************************************)
\* What restore_file hands back: the status, the backend calls it made, the
\* ObjectInfo it read and the restore_status of the RestoreFileResponse.
RestoreFileLog(uuid, status, calls, info, restore_status) ==
  [op |-> "restore_file", uuid |-> uuid, status |-> status, calls |-> calls,
   info |-> info, frames |-> << >>, spawned |-> FALSE,
   restore_status |-> restore_status]

\* match info.restore_status { NotNeeded => .., _ => .. }: the restore_status
\* of the response
restore_status_text(restore_status) ==
  IF restore_status = "NotNeeded" THEN "NOT_NEEDED" ELSE "NOT_NEEDED"

restore_file(uuid, fail) ==
  /\ IF fail = "db" THEN
       resp' = RestoreFileLog(uuid, "internal", << >>, NoInfo, None)
     ELSE IF uuid \notin DOMAIN files THEN
       /\ fail = "none"
       /\ resp' = RestoreFileLog(uuid, "not_found", << >>, NoInfo, None)
     ELSE IF storage = "none" \/ files[uuid].s3_key = Null THEN
       /\ fail = "none"
       /\ resp' = RestoreFileLog(uuid, "failed_precondition", << >>, NoInfo, None)
     ELSE
       LET gcs_key == files[uuid].s3_key[1]
           calls == << Call("get_object_info", gcs_key) >>
       IN IF fail = "info" \/ ~Exists(storage, gcs_key) THEN
            resp' = RestoreFileLog(uuid, "internal", calls, NoInfo, None)
          ELSE
            LET info == get_object_info(storage, objects[gcs_key])
            IN resp' = RestoreFileLog(uuid, "ok", calls, info,
                                      restore_status_text(info.restore_status))
  /\ UNCHANGED << storage, files, objects, tasks, classifyVars, streamVars, dvrVars, authVars >>

(***************************************************************************)
(* What the backends and the clock do on their own.                        *)
(***************************************************************************)
\* An S3 lifecycle rule moves an object to a colder class.
S3Lifecycle(key, class) ==
  /\ key \in DOMAIN objects /\ objects[key].backend = "s3"
  /\ \/ objects[key].storage_class = "STANDARD" /\ class \in {"STANDARD_IA", "GLACIER"}
     \/ objects[key].storage_class = "STANDARD_IA" /\ class = "GLACIER"
  /\ objects' = [objects EXCEPT ![key].storage_class = class, ![key].restore = NoHeader]
  /\ resp' = NoResp
  /\ UNCHANGED << storage, files, tasks, classifyVars, streamVars, dvrVars, authVars >>

\* A Glacier restore finishes; a restored copy expires.
S3RestoreProgress(key) ==
  /\ key \in DOMAIN objects /\ objects[key].backend = "s3"
  /\ objects[key].restore # NoHeader
  /\ objects' = [objects EXCEPT ![key].restore =
                   IF contains(@[1], OngoingTrue)
                   THEN Some(<< OngoingFalse, ExpiryDate >>) ELSE NoHeader]
  /\ resp' = NoResp
  /\ UNCHANGED << storage, files, tasks, classifyVars, streamVars, dvrVars, authVars >>

\* GCS Autoclass moves an object between classes.
GcsAutoclass(key) ==
  /\ key \in DOMAIN objects /\ objects[key].backend = "gcs"
  /\ objects' = [objects EXCEPT ![key].storage_class =
                   IF @ = "STANDARD" THEN "NEARLINE" ELSE "STANDARD"]
  /\ resp' = NoResp
  /\ UNCHANGED << storage, files, tasks, classifyVars, streamVars, dvrVars, authVars >>

\* The oldest access of a file leaves the trailing 7-day window.
WindowSlide(uuid) ==
  /\ uuid \in DOMAIN files /\ files[uuid].recent > 0
  /\ files' = [files EXCEPT ![uuid].recent = @ - 1]
  /\ resp' = NoResp
  /\ UNCHANGED << storage, objects, tasks, classifyVars, streamVars, dvrVars, authVars >>

\* The process stops (its detached tasks die with it) and starts again with
\* the backend its environment selects.
Restart(b) ==
  /\ storage' = b
  /\ tasks' = NoTasks
  /\ resp' = NoResp
  /\ UNCHANGED << files, objects, classifyVars, streamVars, dvrVars, authVars >>

(***************************************************************************)
(* The files service and one file: its upload, its downloads, the tasks    *)
(* they detach, its restore and its deletion.                              *)
(***************************************************************************)
FsInit ==
  /\ storage \in {"none"} \cup Backends
  /\ files = << >>
  /\ objects = << >>
  /\ tasks = NoTasks
  /\ resp = NoResp

FsIdle ==
  /\ storage = "none"
  /\ files = << >>
  /\ objects = << >>
  /\ tasks = NoTasks
  /\ resp = NoResp

Init == FsInit /\ ClassifyIdle /\ StreamIdle /\ DvrIdle /\ AuthIdle

CreateFails == {"none", "db", "upload", "insert"}
DownloadFails == {"none", "db", "info", "download"}
RestoreFails == {"none", "db", "info"}

\* The uuids requests name: the file's, and one no row has.
ProbeUuids == {UuidTable[1], UuidTable[2]}

ProbeKeys == {generate_gcs_key(DEFAULT_ORGANIZATION_ID, UuidTable[1])}

Next ==
  \/ \E c \in Contents, b \in BlobInputs, f \in CreateFails :
       UsedUuids = {} /\ create_file(DEFAULT_ORGANIZATION_ID, PDF, c, b, f)
  \/ \E u \in ProbeUuids, f \in DownloadFails : download_file(u, f)
  \/ \E task \in DOMAIN tasks, ok \in BOOLEAN : TaskRecord(task, ok)
  \/ \E task \in DOMAIN tasks, ok \in BOOLEAN : TaskRewrite(task, ok)
  \/ \E task \in DOMAIN tasks, ok \in BOOLEAN : TaskUpdate(task, ok)
  \/ \E u \in ProbeUuids, d \in BOOLEAN : delete_file(u, d)
  \/ \E k \in ProbeKeys, ok \in BOOLEAN : request_restore(k, ok)
  \/ \E u \in ProbeUuids, f \in RestoreFails : restore_file(u, f)
  \/ \E k \in ProbeKeys, c \in {"STANDARD_IA", "GLACIER"} : S3Lifecycle(k, c)
  \/ \E k \in ProbeKeys : S3RestoreProgress(k)
  \/ \E k \in ProbeKeys : GcsAutoclass(k)
  \/ \E u \in ProbeUuids : WindowSlide(u)
  \/ \E b \in {"none"} \cup Backends : Restart(b)

Spec == Init /\ [][Next]_vars

(***************************************************************************)
(* One file created, read and deleted under one configuration: create_file, *)
(* delete_file, get_file, download_file and the access recording of the    *)
(* tasks the downloads detach.                                             *)
(***************************************************************************)
NextDeleted ==
  \/ \E c \in Contents, b \in BlobInputs, f \in CreateFails :
       UsedUuids = {} /\ create_file(DEFAULT_ORGANIZATION_ID, PDF, c, b, f)
  \/ \E u \in ProbeUuids, d \in BOOLEAN : delete_file(u, d)
  \/ \E u \in ProbeUuids, ib \in BOOLEAN, d \in BOOLEAN : get_file(u, ib, d)
  \/ \E u \in ProbeUuids, f \in DownloadFails : download_file(u, f)
  \/ \E task \in DOMAIN tasks, ok \in BOOLEAN : TaskRecord(task, ok)
  \/ \E u \in ProbeUuids : WindowSlide(u)

SpecDeleted == Init /\ [][NextDeleted]_vars

(***************************************************************************)
(* The DVR archive path of DvrNotificationsServiceImpl: bulk_create and    *)
(* retry_pending_downloads detach download_and_store_mp4, one step per     *)
(* await: the HTTP fetch, the storage upload, the UPDATE.                  *)
(***************************************************************************)
Mp4Urls == {"https://dvr.test/a.mp4", "https://example.com/b.mp4"}

DvrUuidTable ==
  << "dddddddd-0000-4000-8000-000000000001",
     "dddddddd-0000-4000-8000-000000000002",
     "dddddddd-0000-4000-8000-000000000003" >>

\* format!("{}/dvr/{}.mp4", organization_id, uuid)
dvr_gcs_key(organization_id, uuid) == organization_id \o "/dvr/" \o uuid \o ".mp4"

\* mp4_url LIKE 'https://example.com%'
IsExampleUrl(mp4_url) ==
  /\ Len(mp4_url) >= Len("https://example.com")
  /\ SubSeq(mp4_url, 1, Len("https://example.com")) = "https://example.com"

\* The INSERT names neither gcs_key nor download_status; the retry query
\* takes a row for awaiting its download when the status is 'pending' or NULL.
PendingStatuses == {Null, Some("pending")}

\* A row as INSERT INTO dvr_notifications leaves it: gcs_key unset and
\* download_status at the column's default.
NewDvrRow(organization_id, status_default) ==
  [organization_id |-> organization_id, gcs_key |-> Null,
   download_status |-> status_default]

DvrLog(op, mp4_url, status) == [op |-> op, mp4_url |-> mp4_url, status |-> status]

DvrAlive == Sum(dvr_tasks, DOMAIN dvr_tasks)

\* spawn_mp4_download: nothing without a backend
spawn_mp4_download(bag, mp4_url, organization_id) ==
  IF storage = "none" THEN bag
  ELSE Spawn(bag, [pc |-> "fetch", mp4_url |-> mp4_url,
                   organization_id |-> organization_id, gcs_key |-> Null])

RECURSIVE SpawnAll(_, _)
SpawnAll(bag, urls) ==
  IF urls = {} THEN bag
  ELSE LET u == CHOOSE x \in urls : TRUE
       IN SpawnAll(spawn_mp4_download(bag, u, dvr_rows[u].organization_id), urls \ {u})

\* bulk_create of a request with at most one notification.  fail names the
\* await that fails: "db" (the connection or the existence check), "insert";
\* status_default is what the table gives a column the INSERT leaves out.
bulk_create(organization_id, notifications, fail, status_default) ==
  /\ IF notifications = << >> THEN
       /\ fail = "none" /\ status_default = Null
       /\ dvr_resp' = DvrLog("bulk_create", None, "ok")
       /\ UNCHANGED << dvr_rows, dvr_tasks >>
     ELSE IF fail = "db" THEN
       /\ status_default = Null
       /\ dvr_resp' = DvrLog("bulk_create", notifications[1], "internal")
       /\ UNCHANGED << dvr_rows, dvr_tasks >>
     ELSE IF notifications[1] \in DOMAIN dvr_rows THEN
       /\ fail = "none" /\ status_default = Null
       /\ dvr_resp' = DvrLog("bulk_create", notifications[1], "ok")
       /\ UNCHANGED << dvr_rows, dvr_tasks >>
     ELSE IF fail = "insert" THEN
       /\ status_default = Null
       /\ dvr_resp' = DvrLog("bulk_create", notifications[1], "ok")
       /\ UNCHANGED << dvr_rows, dvr_tasks >>
     ELSE
       /\ DvrAlive < MaxDvrTasks
       /\ dvr_rows' = Put(dvr_rows, notifications[1], NewDvrRow(organization_id, status_default))
       /\ dvr_tasks' = spawn_mp4_download(dvr_tasks, notifications[1], organization_id)
       /\ dvr_resp' = DvrLog("bulk_create", notifications[1], "ok")
  /\ UNCHANGED << dvr_keys, fsVars, classifyVars, streamVars, authVars >>

\* The rows the retry query selects.
PendingRecords(organization_id) ==
  {u \in DOMAIN dvr_rows :
     /\ dvr_rows[u].organization_id = organization_id
     /\ dvr_rows[u].download_status \in PendingStatuses
     /\ ~IsExampleUrl(u)}

retry_pending_downloads(organization_id, db_ok) ==
  /\ IF storage = "none" THEN
       /\ db_ok
       /\ dvr_resp' = DvrLog("retry_pending_downloads", None, "ok")
       /\ UNCHANGED dvr_tasks
     ELSE IF ~db_ok THEN
       /\ dvr_resp' = DvrLog("retry_pending_downloads", None, "internal")
       /\ UNCHANGED dvr_tasks
     ELSE
       /\ DvrAlive + Cardinality(PendingRecords(organization_id)) <= MaxDvrTasks
       /\ dvr_tasks' = SpawnAll(dvr_tasks, PendingRecords(organization_id))
       /\ dvr_resp' = DvrLog("retry_pending_downloads", None, "ok")
  /\ UNCHANGED << dvr_rows, dvr_keys, fsVars, classifyVars, streamVars, authVars >>

\* http_client.get, the status check and response.bytes()
DvrFetch(task, ok) ==
  /\ task \in DOMAIN dvr_tasks /\ task.pc = "fetch"
  /\ dvr_tasks' = IF ok THEN Spawn(Finish(dvr_tasks, task), [task EXCEPT !.pc = "upload"])
                  ELSE Finish(dvr_tasks, task)
  /\ dvr_resp' = DvrLog("fetch", task.mp4_url, IF ok THEN "ok" ELSE "error")
  /\ UNCHANGED << dvr_rows, dvr_keys, fsVars, classifyVars, streamVars, authVars >>

\* The task going on to the UPDATE whatever storage.upload returned.
DvrUpload_IgnoresError(task, ok) ==
  /\ task \in DOMAIN dvr_tasks /\ task.pc = "upload"
  /\ dvr_keys < MaxDvrKeys
  /\ LET gcs_key == dvr_gcs_key(task.organization_id, DvrUuidTable[dvr_keys + 1])
     IN /\ dvr_keys' = dvr_keys + 1
        /\ objects' = IF ok THEN Put(objects, gcs_key, Uploaded(storage, << 1, 2 >>))
                      ELSE objects
        /\ dvr_tasks' = Spawn(Finish(dvr_tasks, task),
                              [task EXCEPT !.pc = "update", !.gcs_key = Some(gcs_key)])
        /\ dvr_resp' = DvrLog("upload", task.mp4_url, IF ok THEN "ok" ELSE "error")
  /\ UNCHANGED << dvr_rows, storage, files, tasks, resp, classifyVars, streamVars, authVars >>

\* Uuid::new_v4(), the key, storage.upload(&gcs_key, &data, "video/mp4")
DvrUpload(task, ok) ==
  /\ task \in DOMAIN dvr_tasks /\ task.pc = "upload"
  /\ dvr_keys < MaxDvrKeys
  /\ LET gcs_key == dvr_gcs_key(task.organization_id, DvrUuidTable[dvr_keys + 1])
     IN /\ dvr_keys' = dvr_keys + 1
        /\ IF ok THEN
             /\ objects' = Put(objects, gcs_key, Uploaded(storage, << 1, 2 >>))
             /\ dvr_tasks' = Spawn(Finish(dvr_tasks, task),
                                   [task EXCEPT !.pc = "update", !.gcs_key = Some(gcs_key)])
             /\ dvr_resp' = DvrLog("upload", task.mp4_url, "ok")
           ELSE
             /\ dvr_tasks' = Finish(dvr_tasks, task)
             /\ dvr_resp' = DvrLog("upload", task.mp4_url, "error")
             /\ UNCHANGED objects
  /\ UNCHANGED << dvr_rows, storage, files, tasks, resp, classifyVars, streamVars, authVars >>

\* UPDATE dvr_notifications SET gcs_key, file_size_bytes, download_status =
\* 'completed' WHERE organization_id = .. AND mp4_url = ..
DvrUpdate(task, ok) ==
  /\ task \in DOMAIN dvr_tasks /\ task.pc = "update"
  /\ dvr_rows' =
       IF /\ ok /\ task.mp4_url \in DOMAIN dvr_rows
          /\ dvr_rows[task.mp4_url].organization_id = task.organization_id
       THEN [dvr_rows EXCEPT ![task.mp4_url].gcs_key = task.gcs_key,
                             ![task.mp4_url].download_status = Some("completed")]
       ELSE dvr_rows
  /\ dvr_tasks' = Finish(dvr_tasks, task)
  /\ dvr_resp' = DvrLog("update", task.mp4_url, IF ok THEN "ok" ELSE "error")
  /\ UNCHANGED << dvr_keys, fsVars, classifyVars, streamVars, authVars >>

NextDvr ==
  \/ \E n \in {<< >>} \cup {<< u >> : u \in Mp4Urls}, f \in {"none", "db", "insert"},
        d \in PendingStatuses :
       bulk_create(DEFAULT_ORGANIZATION_ID, n, f, d)
  \/ \E d \in BOOLEAN : retry_pending_downloads(DEFAULT_ORGANIZATION_ID, d)
  \/ \E task \in DOMAIN dvr_tasks, ok \in BOOLEAN : DvrFetch(task, ok)
  \/ \E task \in DOMAIN dvr_tasks, ok \in BOOLEAN : DvrUpload(task, ok)
  \/ \E task \in DOMAIN dvr_tasks, ok \in BOOLEAN : DvrUpdate(task, ok)

SpecDvr == Init /\ [][NextDvr]_vars

(***************************************************************************)
(* The auth middleware: AuthMiddleware::call in front of every service,    *)
(* and get_organization_from_request as the services read its result.      *)
(***************************************************************************)
PUBLIC_PATHS ==
  { "/logi.auth.AuthService/Login",
    "/logi.auth.AuthService/SignUpWithGoogle",
    "/logi.auth.AuthService/LoginWithGoogle",
    "/logi.auth.AuthService/ValidateToken",
    "/logi.member.MemberService/AcceptInvitation",
    "/grpc.health.v1.Health/Check",
    "/grpc.health.v1.Health/Watch",
    "/grpc.reflection.v1.ServerReflection/ServerReflectionInfo",
    "/grpc.reflection.v1alpha.ServerReflection/ServerReflectionInfo" }

jwt_secret == "secret"

AuthUsers == { "99999999-0000-4000-8000-000000000001",
               "99999999-0000-4000-8000-000000000002" }

OrgA == "aaaaaaaa-0000-4000-8000-00000000000a"
OrgB == "bbbbbbbb-0000-4000-8000-00000000000b"

\* A header value: its text, and whether it holds a byte outside visible ASCII.
HeaderValue(text, opaque) == [text |-> text, opaque |-> opaque]

\* The requests: a public and a non-public path; no authorization header, or
\* a scheme and a token (its claims, the secret it was signed with, whether
\* exp has passed); no x-organization-id header, or a value.
HttpRequests ==
  LET Tokens ==
        {t \in [sub : AuthUsers, org : {OrgA, OrgB}, key : {jwt_secret, "forged"},
                expired : BOOLEAN] :
           \/ t.key = jwt_secret /\ ~t.expired
           \/ t.org = OrgA /\ t.key = jwt_secret /\ t.expired
           \/ t.org = OrgA /\ t.key # jwt_secret /\ ~t.expired}
      Authorizations ==
        {Null} \cup {Some([scheme |-> "Bearer ", token |-> t]) : t \in Tokens}
               \cup {Some([scheme |-> "Basic ", token |-> t]) :
                       t \in {tk \in Tokens : tk.key = jwt_secret /\ ~tk.expired /\ tk.org = OrgA}}
      OrgHeaders ==
        {Null} \cup {Some(HeaderValue(t, FALSE)) :
                       t \in {"", OrgA, OrgB, "AAAAAAAA-0000-4000-8000-00000000000A",
                              "not-a-uuid"}}
               \cup {Some(HeaderValue(OrgB, TRUE))}
  IN [path : {"/logi.auth.AuthService/Login", "/logi.files.FilesService/GetFile"},
      authorization : Authorizations, org_header : OrgHeaders, extensions : {Null}]

\* .get(ORG_HEADER).and_then(|v| v.to_str().ok()).filter(|s| !s.is_empty()):
\* only a value of visible ASCII is a str
header_str(h) ==
  IF h = Null THEN Null
  ELSE IF h[1].opaque THEN Null
  ELSE IF h[1].text = "" THEN Null
  ELSE Some(h[1].text)

\* .strip_prefix("Bearer ") of the authorization header
bearer_token(req) ==
  IF req.authorization = Null THEN Null
  ELSE IF req.authorization[1].scheme = "Bearer " THEN Some(req.authorization[1].token)
  ELSE Null

\* jsonwebtoken::decode with Validation::default(): signature and exp
decode(token) ==
  IF token = Null THEN Null
  ELSE IF token[1].key = jwt_secret /\ ~token[1].expired
       THEN Some([sub |-> token[1].sub, org |-> token[1].org])
  ELSE Null

\* $n::uuid : the hyphenated form in either case is the uuid in lower case,
\* anything else fails the cast.
uuid_cast(text) ==
  LET HexLower(c) ==
        CASE c = "A" -> "a" [] c = "B" -> "b" [] c = "C" -> "c"
          [] c = "D" -> "d" [] c = "E" -> "e" [] c = "F" -> "f" [] OTHER -> c
      HexDigits == {"0", "1", "2", "3", "4", "5", "6", "7", "8", "9",
                    "a", "b", "c", "d", "e", "f"}
      cs == [i \in 1..Len(text) |-> HexLower(SubSeq(text, i, i))]
      Join[n \in 0..Len(text)] == IF n = 0 THEN "" ELSE Join[n - 1] \o cs[n]
  IN IF /\ Len(text) = 36
        /\ \A i \in 1..Len(text) :
             IF i \in {9, 14, 19, 24} THEN cs[i] = "-" ELSE cs[i] \in HexDigits
     THEN Some(Join[Len(text)])
     ELSE Null

\* The membership query answering whatever the database holds or fails with.
verify_membership_FailOpen(user_id, org_id, db_ok) ==
  IF ~db_ok \/ uuid_cast(user_id) = Null \/ uuid_cast(org_id) = Null THEN Some("member")
  ELSE LET rows == {r \in user_organizations :
                      /\ r.user_id = uuid_cast(user_id)[1]
                      /\ r.organization_id = uuid_cast(org_id)[1]}
       IN IF rows = {} THEN Null ELSE Some((CHOOSE r \in rows : TRUE).role)

\* verify_membership: SELECT role FROM user_organizations WHERE user_id =
\* $1::uuid AND organization_id = $2::uuid; an error and no row are both Err.
verify_membership(user_id, org_id, db_ok) ==
  IF ~db_ok \/ uuid_cast(user_id) = Null \/ uuid_cast(org_id) = Null THEN Null
  ELSE LET rows == {r \in user_organizations :
                      /\ r.user_id = uuid_cast(user_id)[1]
                      /\ r.organization_id = uuid_cast(org_id)[1]}
       IN IF rows = {} THEN Null ELSE Some((CHOOSE r \in rows : TRUE).role)

AuthenticatedUser(user_id, org_id, role) ==
  [user_id |-> user_id, org_id |-> org_id, role |-> role]

\* The request as it reaches the inner service for a valid JWT.
Injected(req, claims, effective_org_id, role) ==
  [req EXCEPT !.extensions = Some(AuthenticatedUser(claims.sub, effective_org_id, role)),
              !.org_header = Some(HeaderValue(effective_org_id, FALSE))]

\* What AuthMiddleware::call does with a request: "denied", or the request
\* handed to inner.call.
CallLog(req, status, forwarded) ==
  [op |-> "call", req |-> req, status |-> status, forwarded |-> forwarded]

call(req, db_ok) ==
  /\ auth_resp' =
       LET Forward(r, to_inner) == CallLog(r, "forwarded", Some(to_inner))
           Denied(r) == CallLog(r, "permission_denied", Null)
       IN
       IF req.path \in PUBLIC_PATHS THEN Forward(req, req)
       ELSE LET jwt_claims == decode(bearer_token(req))
                requested_org == header_str(req.org_header)
            IN IF jwt_claims = Null THEN Forward(req, req)
               ELSE LET claims == jwt_claims[1]
                        org_id == IF requested_org = Null THEN claims.org
                                  ELSE requested_org[1]
                        role == verify_membership(claims.sub, org_id, db_ok)
                    IN IF requested_org # Null /\ org_id # claims.org
                       THEN IF role # Null
                            THEN Forward(req, Injected(req, claims, org_id, role[1]))
                            ELSE Denied(req)
                       ELSE IF role # Null
                            THEN Forward(req, Injected(req, claims, org_id, role[1]))
                            ELSE Forward(req, Injected(req, claims, claims.org, "member"))
  \* the query is reached only on a non-public path with a valid JWT
  /\ (req.path \in PUBLIC_PATHS \/ decode(bearer_token(req)) = Null) => db_ok
  /\ UNCHANGED << user_organizations, fsVars, classifyVars, streamVars, dvrVars >>

\* get_organization_from_metadata: the header, else the default tenant
get_organization_from_metadata(req) ==
  IF header_str(req.org_header) = Null THEN DEFAULT_ORGANIZATION_ID
  ELSE header_str(req.org_header)[1]

\* get_organization_from_request: AuthenticatedUser first, then the header
get_organization_from_request(req) ==
  IF req.extensions # Null THEN req.extensions[1].org_id
  ELSE get_organization_from_metadata(req)

\* A membership table: at most one row per (user, organization); a row holds
\* "admin" (the role of a user without a row is "member").
MembershipTables ==
  {t \in SUBSET [user_id : AuthUsers, organization_id : {OrgA, OrgB}, role : {"admin"}] :
     \A r1, r2 \in t :
       (r1.user_id = r2.user_id /\ r1.organization_id = r2.organization_id) => r1 = r2}

InitAuth ==
  /\ FsIdle /\ ClassifyIdle /\ StreamIdle /\ DvrIdle
  /\ user_organizations \in MembershipTables
  /\ auth_resp = [op |-> None]

NextAuth == \E req \in HttpRequests, db_ok \in BOOLEAN : call(req, db_ok)

SpecAuth == InitAuth /\ [][NextAuth]_vars

(***************************************************************************)
(* Uploads of several tenants: create_file and restarts on their own.      *)
(***************************************************************************)
NextTenancy ==
  \/ \E o \in Orgs, c \in Contents, b \in BlobInputs, f \in CreateFails :
       create_file(o, PDF, c, b, f)
  \/ \E b \in {"none"} \cup Backends : Restart(b)

SpecTenancy == Init /\ [][NextTenancy]_vars

(***************************************************************************)
(* The files table and its listings: uploads of two types, attachments,    *)
(* deletions and the three listings.                                       *)
(***************************************************************************)
TypeFilters == {Null} \cup {Some(t) : t \in FileTypes}

NextListing ==
  \/ \E t \in FileTypes, f \in {"none", "insert"} :
       create_file(DEFAULT_ORGANIZATION_ID, t, << 1, 2 >>, Null, f)
  \/ \E u \in Uuids, d \in BOOLEAN : delete_file(u, d)
  \/ \E u \in Uuids : Attach(u)
  \/ \E t \in TypeFilters, d \in BOOLEAN : list_files(t, d)
  \/ \E d \in BOOLEAN : list_not_attached_files(d)
  \/ \E d \in BOOLEAN : list_recent_uploaded_files(d)

SpecListing == Init /\ [][NextListing]_vars

(***************************************************************************)
(* Classification on its own: parse_restore_status applied to a storage    *)
(* class and a header drawn from bounded sets.                             *)
(***************************************************************************)
ClassInputs ==
  {None, "STANDARD", "STANDARD_IA", "INTELLIGENT_TIERING", "NEARLINE",
   "GLACIER", "DEEP_ARCHIVE", "GLACIER_IR"}

RECURSIVE SeqsUpTo(_, _)
SeqsUpTo(S, n) ==
  IF n = 0 THEN { << >> }
  ELSE LET shorter == SeqsUpTo(S, n - 1)
       IN shorter \cup {Append(q, x) : q \in shorter, x \in S}

HeaderInputs == {NoHeader} \cup {Some(h) : h \in SeqsUpTo(HeaderTokens, MaxHeader)}

InitClassify ==
  /\ p_class \in ClassInputs
  /\ p_header \in HeaderInputs
  /\ p_status = None
  /\ FsIdle /\ StreamIdle /\ DvrIdle /\ AuthIdle

Classify ==
  /\ p_status = None
  /\ p_status' = parse_restore_status(p_class, p_header)
  /\ UNCHANGED << p_class, p_header, fsVars, streamVars, dvrVars, authVars >>

NextClassify == Classify

SpecClassify == InitClassify /\ [][NextClassify]_vars

(***************************************************************************)
(* The chunked download streamer on its own: the producer task of          *)
(* download_file, the bounded channel and the consumer (the transport).    *)
(***************************************************************************)
CHANNEL_DEPTH == 4

Residues == {0, 1, 18928, 65535}

Sizes == {k * chunk_size + r : k \in 0..MaxChunks, r \in Residues}

\* A buffer of n bytes: the frames carry slices of it, so its bytes are
\* told apart by their position.
Buffer(n) == [lo |-> 0, hi |-> n]

InitStream ==
  /\ s_data \in {Buffer(n) : n \in Sizes}
  /\ s_k = 0 /\ s_offset = 0 /\ s_pc = "send"
  /\ s_chan = << >> /\ s_rx = "open" /\ s_recv = << >>
  /\ FsIdle /\ ClassifyIdle /\ DvrIdle /\ AuthIdle

\* tx.send(Ok(file_chunk)).await succeeds; offset += chunk.len()
ProducerSend ==
  /\ s_pc = "send" /\ HasChunk(SliceLen(s_data), s_k)
  /\ s_rx = "open" /\ Len(s_chan) < CHANNEL_DEPTH
  /\ LET chunk == ChunkAt(SliceLen(s_data), s_k)
     IN /\ s_chan' = Append(s_chan, [data |-> chunk, offset |-> s_offset,
                                     total_size |-> SliceLen(s_data)])
        /\ s_offset' = next_offset(s_offset, chunk)
  /\ s_k' = s_k + 1
  /\ UNCHANGED << s_data, s_pc, s_rx, s_recv, fsVars, classifyVars, dvrVars, authVars >>

\* A failed send skipped: the loop goes on with the next chunk.
ProducerSendFails_Continues ==
  /\ s_pc = "send" /\ HasChunk(SliceLen(s_data), s_k)
  /\ s_rx = "dropped"
  /\ s_k' = s_k + 1
  /\ UNCHANGED << s_data, s_offset, s_pc, s_chan, s_rx, s_recv, fsVars, classifyVars, dvrVars, authVars >>

\* tx.send(..).await.is_err(): break
ProducerSendFails ==
  /\ s_pc = "send" /\ HasChunk(SliceLen(s_data), s_k)
  /\ s_rx = "dropped"
  /\ s_pc' = "broken"
  /\ UNCHANGED << s_data, s_k, s_offset, s_chan, s_rx, s_recv, fsVars, classifyVars, dvrVars, authVars >>

\* the iterator is exhausted: the loop and the task end
ProducerEnd ==
  /\ s_pc = "send" /\ ~HasChunk(SliceLen(s_data), s_k)
  /\ s_pc' = "done"
  /\ UNCHANGED << s_data, s_k, s_offset, s_chan, s_rx, s_recv, fsVars, classifyVars, dvrVars, authVars >>

ConsumerRecv ==
  /\ s_rx = "open" /\ s_chan # << >>
  /\ s_recv' = Append(s_recv, Head(s_chan))
  /\ s_chan' = Tail(s_chan)
  /\ UNCHANGED << s_data, s_k, s_offset, s_pc, s_rx, fsVars, classifyVars, dvrVars, authVars >>

\* the consumer disconnects: the receiver is dropped with what it holds
ConsumerDisconnect ==
  /\ s_rx = "open"
  /\ s_rx' = "dropped"
  /\ UNCHANGED << s_data, s_k, s_offset, s_pc, s_chan, s_recv, fsVars, classifyVars, dvrVars, authVars >>

NextStream ==
  \/ ProducerSend
  \/ ProducerSendFails
  \/ ProducerEnd
  \/ ConsumerRecv
  \/ ConsumerDisconnect

SpecStream == InitStream /\ [][NextStream]_vars

\* The runtime runs a spawned task that can take a step, and the transport
\* takes a frame that waits in the channel while the receiver is open.
StreamFairness ==
  /\ WF_vars(ProducerSend)
  /\ WF_vars(ProducerSendFails)
  /\ WF_vars(ProducerEnd)
  /\ WF_vars(ConsumerRecv)

SpecStreamLive == SpecStream /\ StreamFairness

(***************************************************************************)
(* The restore lifecycle seen from download_file and request_restore.      *)
(***************************************************************************)
HasCall(calls, fn) == \E i \in 1..Len(calls) : calls[i].fn = fn

\* C1: a download_file of a Remote file whose backend object is classified
\* InProgress fails with RestoreInProgress (Status unavailable) and transfers
\* no byte: the backend's download is never called and the stream carries no
\* frame.
C1_InProgressDownloadRefused ==
  (resp.op = "download_file" /\ resp.info.restore_status = "InProgress") =>
    /\ resp.status = "unavailable"
    /\ ~HasCall(resp.calls, "download")
    /\ resp.frames = << >>

\* C2: a download_file of a Remote file whose backend object is classified
\* Required issues a request_restore for the key and then fails with
\* RestoreRequired (Status failed_precondition) without fetching any bytes.
C2_RequiredDownloadRequestsRestore ==
  (resp.op = "download_file" /\ resp.info.restore_status = "Required") =>
    /\ resp.status = "failed_precondition"
    /\ HasCall(resp.calls, "request_restore")
    /\ ~HasCall(resp.calls, "download")
    /\ resp.frames = << >>

\* C3: a request_restore that the backend answers with "a restore is already
\* in progress" (the second of two calls on a Required object) returns
\* success to its caller.
C3_SecondRestoreRequestSucceeds ==
  (resp.op = "request_restore" /\ resp.reply = "RestoreAlreadyInProgress") =>
    resp.status = "Ok"

\* C4: restore classification is total over (storage class, restore header):
\* a class outside GLACIER, DEEP_ARCHIVE, GLACIER_IR gives NotNeeded whatever
\* the header; an archival class gives Required with no header, InProgress
\* with an ongoing-request="true" marker, Completed with only an
\* ongoing-request="false" marker; the result is always one of the four states.
C4_ClassificationTotal ==
  p_status # None =>
    /\ p_status \in RestoreStatus
    /\ p_class \notin {"GLACIER", "DEEP_ARCHIVE", "GLACIER_IR"} => p_status = "NotNeeded"
    /\ p_class \in {"GLACIER", "DEEP_ARCHIVE", "GLACIER_IR"} =>
         /\ p_header = NoHeader => p_status = "Required"
         /\ (p_header # NoHeader /\ contains(p_header[1], OngoingTrue)) =>
              p_status = "InProgress"
         /\ (p_header # NoHeader /\ ~contains(p_header[1], OngoingTrue)
               /\ contains(p_header[1], OngoingFalse)) => p_status = "Completed"

\* An archival object whose header carries the finished-restore marker and an
\* expiry date has been classified Completed.
C4_Witness ==
  /\ p_class = "GLACIER_IR"
  /\ p_header = Some(<< OngoingFalse, ExpiryDate >>)
  /\ p_status = "Completed"

(***************************************************************************)
(* The frames of a download stream.                                        *)
(***************************************************************************)
\* The frames the producer has put on the stream so far, in order.
Sent == s_recv \o s_chan

\* The bytes of the frames in order, as the slices of the buffer they make
\* up: adjoining slices are joined, empty ones dropped.
RECURSIVE Concat(_)
Concat(frames) ==
  IF frames = << >> THEN << >>
  ELSE LET d == Head(frames).data
           rest == Concat(Tail(frames))
       IN IF d.lo >= d.hi THEN rest
          ELSE IF rest # << >> /\ rest[1].lo = d.hi
               THEN << [lo |-> d.lo, hi |-> rest[1].hi] >> \o Tail(rest)
               ELSE << d >> \o rest

\* The bytes of the whole buffer, the same way.
Whole(data) == IF SliceLen(data) = 0 THEN << >> ELSE << data >>

CeilDiv(n, d) == (n + d - 1) \div d

\* C5: once the chunk loop has ended, the frames it produced, concatenated in
\* order, are the buffer; the last frame's offset + length is the total size;
\* there are ceil(N / 65536) frames: 65536, 65536 and 18928 bytes for
\* N = 150000, none for N = 0.
C5_ChunkRoundTrip ==
  s_pc = "done" =>
    /\ Concat(Sent) = Whole(s_data)
    /\ Len(Sent) = CeilDiv(SliceLen(s_data), 65536)
    /\ Sent # << >> =>
         /\ Sent[Len(Sent)].offset + SliceLen(Sent[Len(Sent)].data) = SliceLen(s_data)
         /\ Sent[Len(Sent)].total_size = SliceLen(s_data)
    /\ SliceLen(s_data) = 150000 =>
         [i \in 1..Len(Sent) |-> SliceLen(Sent[i].data)] = << 65536, 65536, 18928 >>
    /\ SliceLen(s_data) = 0 => Sent = << >>

\* A buffer of 150000 bytes has been streamed to the end and taken in full.
C5_Witness ==
  /\ s_pc = "done"
  /\ SliceLen(s_data) = 150000
  /\ Len(s_recv) = 3
  /\ s_chan = << >>

\* C6: at every moment of a stream, the frames put on it start at offset 0,
\* each later frame's offset is the previous frame's offset plus its length
\* (so offsets strictly increase), every frame carries the buffer's size as
\* total_size, and no frame is empty or longer than 64 KiB.
C6_OffsetsContiguous ==
  \A i \in 1..Len(Sent) :
    /\ Sent[i].offset =
         IF i = 1 THEN 0 ELSE Sent[i - 1].offset + SliceLen(Sent[i - 1].data)
    /\ i > 1 => Sent[i].offset > Sent[i - 1].offset
    /\ Sent[i].total_size = SliceLen(s_data)
    /\ SliceLen(Sent[i].data) \in 1..(64 * 1024)

\* The consumer has taken a second frame, which starts where the first ended.
C6_Witness ==
  /\ Len(s_recv) >= 2
  /\ s_recv[2].offset = 65536
  /\ s_recv[1].offset = 0

Remote(row) == row.s3_key # Null

Inline(row) == row.blob # Null

\* C8: every Remote record's key is "{organization_id}/{id}"; two Remote
\* records of different tenants have different keys, identical content or
\* not; and every object in a bucket sits under the key of exactly one
\* (tenant, id) pair.
C8_TenantScopedKeys ==
  /\ \A u \in DOMAIN files :
       Remote(files[u]) => files[u].s3_key[1] = files[u].organization_id \o "/" \o u
  /\ \A u, v \in DOMAIN files :
       (Remote(files[u]) /\ Remote(files[v])
          /\ files[u].organization_id # files[v].organization_id)
         => files[u].s3_key[1] # files[v].s3_key[1]
  /\ \A k \in DOMAIN objects :
       Cardinality({ov \in Orgs \X Uuids : k = ov[1] \o "/" \o ov[2]}) = 1

\* Two tenants have uploaded the same bytes and both records are Remote.
C8_Witness ==
  \E u, v \in DOMAIN files :
    /\ Remote(files[u]) /\ Remote(files[v])
    /\ files[u].organization_id # files[v].organization_id
    /\ objects[files[u].s3_key[1]].data = objects[files[v].s3_key[1]].data

\* C9: a Remote record (class STANDARD) is persisted only after its upload
\* has returned success: every Remote record's key names an object written
\* to the backend; a create_file that leaves a Remote record has called
\* upload and answers ok; a create_file that fails leaves no record.
C9_UploadBeforeRecord ==
  /\ \A u \in DOMAIN files :
       Remote(files[u]) =>
         /\ files[u].s3_key[1] \in DOMAIN objects
         /\ files[u].storage_class = "STANDARD"
  /\ resp.op = "create_file" =>
       /\ resp.status # "ok" => resp.uuid \notin DOMAIN files
       /\ (resp.uuid \in DOMAIN files /\ Remote(files[resp.uuid])) =>
            /\ resp.calls = << Call("upload", files[resp.uuid].s3_key[1]) >>
            /\ objects[files[resp.uuid].s3_key[1]].storage_class = "STANDARD"

\* A create_file with a backend configured has succeeded: the object is in the
\* bucket and the Remote record names it.
C9_Witness ==
  /\ resp.op = "create_file" /\ resp.status = "ok"
  /\ resp.uuid \in DOMAIN files
  /\ Remote(files[resp.uuid])
  /\ files[resp.uuid].s3_key[1] \in DOMAIN objects

\* C10: every FileRecord is in exactly one content state, Inline (blob set,
\* key absent) or Remote (key set, blob absent): never both, never neither.
C10_ExactlyOneContentState ==
  \A u \in DOMAIN files : Inline(files[u]) # Remote(files[u])

(***************************************************************************)
(* Deletion and listings.                                                  *)
(***************************************************************************)
\* C11: delete_file is a soft delete: it makes no call on the backend, and
\* the object of a deleted Remote record is still in its bucket, however
\* many times delete_file has been called.
C11_SoftDeleteOnly ==
  /\ resp.op = "delete_file" => resp.calls = << >>
  /\ \A u \in DOMAIN files :
       (files[u].deleted /\ Remote(files[u])) => files[u].s3_key[1] \in DOMAIN objects

\* A delete_file of a Remote file has succeeded; its object is still there.
C11_Witness ==
  /\ resp.op = "delete_file" /\ resp.status = "ok"
  /\ resp.uuid \in DOMAIN files
  /\ files[resp.uuid].deleted /\ Remote(files[resp.uuid])
  /\ files[resp.uuid].s3_key[1] \in DOMAIN objects

ListOps == {"list_files", "list_not_attached_files", "list_recent_uploaded_files"}

\* C12: every listing (list_files with or without a type filter,
\* list_not_attached_files, list_recent_uploaded_files) returns only records
\* whose deleted_at is unset, and a deleted record stays deleted: once
\* delete_file(id) has succeeded no later listing shows id.
C12_ListingsHideDeleted ==
  /\ [](resp.op \in ListOps =>
          \A i \in 1..Len(resp.files) :
            /\ resp.files[i].uuid \in DOMAIN files
            /\ ~files[resp.files[i].uuid].deleted
            /\ ~resp.files[i].deleted)
  /\ [][\A u \in DOMAIN files :
          files[u].deleted => (u \in DOMAIN files' /\ files'[u].deleted)]_vars

\* A listing has answered with one file while another file of the table is
\* deleted.
C12_Witness ==
  /\ resp.op \in ListOps /\ resp.status = "ok"
  /\ Len(resp.files) = 1
  /\ \E u \in DOMAIN files : files[u].deleted

(***************************************************************************)
(* The background task and the requests around it.                         *)
(***************************************************************************)
TaskOps == {"record_access", "rewrite_to_standard", "promote_update"}

RECURSIVE ConcatBytes(_)
ConcatBytes(frames) ==
  IF frames = << >> THEN << >> ELSE Head(frames).data \o ConcatBytes(Tail(frames))

\* C13: a step of the background task that fails (recording the access,
\* rewrite_to_standard, the UPDATE) is logged and dropped: it leaves the
\* table, the buckets and the service as they were, so no request is
\* answered differently for it; and the download that spawned a task has
\* answered ok with a stream holding all the bytes of the object.
C13_TaskFailuresDropped ==
  /\ []((resp.op = "download_file" /\ resp.spawned) =>
          /\ resp.status = "ok"
          /\ ConcatBytes(resp.frames) = objects[files[resp.uuid].s3_key[1]].data)
  /\ [][(resp'.op \in TaskOps /\ resp'.status = "error") =>
          (files' = files /\ objects' = objects /\ storage' = storage)]_vars

\* The UPDATE of a promotion has failed and the record is not promoted.
C13_Witness ==
  /\ resp.op = "promote_update" /\ resp.status = "error"
  /\ resp.uuid \in DOMAIN files
  /\ ~files[resp.uuid].promoted

\* C14: under every interleaving of the promotion tasks of concurrent
\* downloads of one object, a rewrite_to_standard of an object already on
\* the hottest tier changes nothing and no rewrite changes the bytes; an
\* UPDATE of a record already promoted changes nothing; and a record once
\* promoted stays promoted and on STANDARD.
C14_RedundantPromotionsBenign ==
  [][/\ \A u \in DOMAIN files :
          files[u].promoted =>
            /\ u \in DOMAIN files'
            /\ files'[u].promoted
            /\ files'[u].storage_class = "STANDARD"
     /\ (resp'.op = "rewrite_to_standard" /\ resp'.calls[1].key \in DOMAIN objects) =>
          LET key == resp'.calls[1].key
          IN /\ objects'[key].data = objects[key].data
             /\ objects[key].storage_class = "STANDARD" => objects' = objects
     /\ (resp'.op = "promote_update" /\ resp'.uuid \in DOMAIN files
           /\ files[resp'.uuid].promoted) => files' = files]_vars

\* A task has persisted the promotion while another task of the same object
\* is still on its way to rewrite or to update.
C14_Witness ==
  /\ resp.op = "promote_update" /\ resp.status = "ok"
  /\ resp.uuid \in DOMAIN files /\ files[resp.uuid].promoted
  /\ \E task \in DOMAIN tasks :
       task.uuid = resp.uuid /\ task.pc \in {"rewrite", "update"}

(***************************************************************************)
(* Promotion as later accesses see it; the restore outcomes.               *)
(***************************************************************************)
\* C15: a download that starts once a promotion of the object has completed
\* (rewrite_to_standard returned Ok and the UPDATE went through) observes the
\* hottest tier, so that the task it detaches makes no rewrite_to_standard
\* call whatever count it records, on every backend.
C15_NextAccessSeesHotTier ==
  (/\ resp.op = "download_file" /\ resp.spawned
   /\ resp.uuid \in DOMAIN files
   /\ files[resp.uuid].promoted)
  => \A n \in 0..MaxAccess : ~should_promote(n, resp.info.storage_class)

\* C16: a caller can tell a restore-blocked object from a backend failure: a
\* download_file of an object whose restore is Required or InProgress is
\* answered with a status other than the one a Storage failure gets.
C16_RestoreBlockedDistinct ==
  (/\ resp.op = "download_file"
   /\ resp.info.restore_status \in {"Required", "InProgress"})
  => resp.status # from_AppError("Storage")

WarmBackends == {"gcs", "r2"}

\* C17: on a warm backend (GCS, R2) get_object_info reports NotNeeded for
\* every object whatever its class and restore marker, a freshly uploaded one
\* included, and no download through a warm backend is refused as
\* RestoreRequired or RestoreInProgress.
C17_WarmNeverNeedsRestore ==
  /\ \A b \in WarmBackends, key \in DOMAIN objects :
       get_object_info(b, objects[key]).restore_status = "NotNeeded"
  /\ (resp.op = "download_file" /\ storage \in WarmBackends) =>
       /\ resp.info.restore_status \in {None, "NotNeeded"}
       /\ resp.status \notin {from_AppError("RestoreRequired"),
                              from_AppError("RestoreInProgress")}

\* A download through GCS of an object the bucket holds in a colder class
\* has been served.
C17_Witness ==
  /\ storage = "gcs"
  /\ resp.op = "download_file" /\ resp.status = "ok"
  /\ resp.info.storage_class = "NEARLINE"
  /\ resp.info.restore_status = "NotNeeded"
  /\ resp.frames # << >>

\* The restore_status a restore_file response is to carry for each
\* classification of the object.
Reported(restore_status) ==
  CASE restore_status = "NotNeeded" -> "NOT_NEEDED"
    [] restore_status = "InProgress" -> "IN_PROGRESS"
    [] restore_status = "Completed" -> "COMPLETED"
    [] restore_status = "Required" -> "REQUESTED"

\* C18: a restore_file of a Remote file that is answered reports the
\* restore_status of the object's classification (NOT_NEEDED, IN_PROGRESS,
\* COMPLETED, or REQUESTED), and for an object classified Required it has
\* issued a request_restore on the backend.
C18_RestoreFileReflectsStatus ==
  (resp.op = "restore_file" /\ resp.status = "ok") =>
    /\ resp.restore_status = Reported(resp.info.restore_status)
    /\ resp.info.restore_status = "Required" => HasCall(resp.calls, "request_restore")

\* C19: rewrite_to_standard is idempotent on every backend: once a call has
\* returned Ok, a second call on the same key succeeds and leaves the object
\* as the first left it, which is on the hottest tier (STANDARD) as
\* get_object_info reports it.
C19_RewriteIdempotentAndHot ==
  (/\ resp.op = "rewrite_to_standard" /\ resp.status = "ok"
   /\ Exists(storage, resp.calls[1].key))
  => LET key == resp.calls[1].key
         once == objects[key]
     IN /\ RewriteSucceeds(storage, key, TRUE)
        /\ rewrite_to_standard(storage, once) = once
        /\ get_object_info(storage, once).storage_class = "STANDARD"

\* The tasks that have decided to promote and are about to call
\* rewrite_to_standard.
AboutToRewrite(bag) == Sum(bag, {task \in DOMAIN bag : task.pc = "rewrite"})

\* C20: a task goes on to call rewrite_to_standard if and only if its access
\* was recorded with a trailing-7-day count of at least 3 and the tier the
\* download read for the object is not STANDARD: never with a count below 3,
\* never for a STANDARD object, never when recording the access failed; and
\* every rewrite_to_standard call is made by such a task, once.
C20_RewriteIffThresholdAndCold ==
  [][/\ (AboutToRewrite(tasks') > AboutToRewrite(tasks)) <=>
          /\ resp'.op = "record_access" /\ resp'.status = "ok"
          /\ resp'.count >= 3
          /\ resp'.info.storage_class # "STANDARD"
     /\ resp'.op = "rewrite_to_standard" =>
          AboutToRewrite(tasks') = AboutToRewrite(tasks) - 1
     /\ (resp'.op = "record_access" /\ resp'.status = "error") =>
          /\ AboutToRewrite(tasks') = AboutToRewrite(tasks)
          /\ files' = files]_vars

\* A task has recorded the third access of an object below the hot tier and
\* is about to call rewrite_to_standard.
C20_Witness ==
  /\ resp.op = "record_access" /\ resp.status = "ok"
  /\ resp.count = 3 /\ resp.info.storage_class \notin {"STANDARD", None}
  /\ AboutToRewrite(tasks) > 0

(***************************************************************************)
(* The record under promotion, downloads and deletion.                     *)
(***************************************************************************)
\* The tasks whose rewrite_to_standard returned Ok and whose UPDATE is due.
AboutToUpdate(bag) == Sum(bag, {task \in DOMAIN bag : task.pc = "update"})

\* C21: the tier and the promotion timestamp of an existing record are
\* written only by the UPDATE of a task whose rewrite_to_standard call for
\* that object returned Ok; a task reaches that UPDATE only through such a
\* call; when the call fails the record is left as it was and no UPDATE
\* follows.
C21_RecordPromotedOnlyAfterRewrite ==
  [][/\ \A u \in DOMAIN files :
          (\/ files'[u].promoted # files[u].promoted
           \/ files'[u].storage_class # files[u].storage_class)
          => (resp'.op = "promote_update" /\ resp'.status = "ok" /\ resp'.uuid = u)
     /\ (AboutToUpdate(tasks') > AboutToUpdate(tasks)) <=>
          (resp'.op = "rewrite_to_standard" /\ resp'.status = "ok")
     /\ resp'.op = "promote_update" =>
          AboutToUpdate(tasks') = AboutToUpdate(tasks) - 1
     /\ (resp'.op = "rewrite_to_standard" /\ resp'.status = "error") =>
          /\ files' = files
          /\ AboutToUpdate(tasks') = AboutToUpdate(tasks)]_vars

\* A rewrite_to_standard call has failed; the record is not promoted and no
\* UPDATE is due.
C21_Witness ==
  /\ resp.op = "rewrite_to_standard" /\ resp.status = "error"
  /\ resp.uuid \in DOMAIN files
  /\ ~files[resp.uuid].promoted
  /\ AboutToUpdate(tasks) = 0

\* C22: when a task's rewrite_to_standard succeeded and its UPDATE failed,
\* the next access of the object re-attempts the promotion: the download
\* that follows detaches a task that, with the count at the threshold, calls
\* rewrite_to_standard and goes on to the UPDATE again.
C22_NextAccessReattempts ==
  [][(/\ resp.op = "promote_update" /\ resp.status = "error"
      /\ resp'.op = "download_file" /\ resp'.spawned
      /\ resp'.uuid = resp.uuid)
     => should_promote(PROMOTE_THRESHOLD, resp'.info.storage_class)]_vars

(***************************************************************************)
(* The end of the chunk loop.                                              *)
(***************************************************************************)
\* What the loop writes: its position and the frames it has put on the stream.
ProducerVars == << s_k, s_offset, s_pc, Sent >>

C24_TaskPerSuccessfulDownload ==
  resp.op = "download_file" =>
    IF resp.status = "ok" /\ resp.frames # << >>
    THEN resp.spawned
    ELSE resp.status # "ok" => ~resp.spawned

\* The columns of a row other than those named.
Without(row, columns) == [c \in DOMAIN row \ columns |-> row[c]]

RestoreCalls == {"request_restore", "restore_object"}

RECURSIVE CountCalls(_, _)
CountCalls(calls, fns) ==
  IF calls = << >> THEN 0
  ELSE (IF Head(calls).fn \in fns THEN 1 ELSE 0) + CountCalls(Tail(calls), fns)

\* C26: one download_file, one restore_file or one request_restore sends at
\* most one restore request to the backend, whether the backend accepts or
\* refuses it, and no step of a background task sends any.
C26_AtMostOneRestoreRequest ==
  /\ resp.op \in {"download_file", "restore_file", "request_restore"} =>
       CountCalls(resp.calls, RestoreCalls) <= 1
  /\ resp.op \in TaskOps => CountCalls(resp.calls, RestoreCalls) = 0

\* A restore request has been refused by the backend and was sent once.
C26_Witness ==
  /\ resp.op = "request_restore"
  /\ resp.status # "Ok"
  /\ CountCalls(resp.calls, RestoreCalls) = 1

\* C27: delete_file hides a record from the listings only: get_file and
\* download_file answer not_found only for an identifier no row has, never
\* for a deleted record; get_file of a deleted record returns its metadata,
\* deleted mark included, and download_file of a deleted record whose content
\* is available returns its bytes.
C27_DeletedStillServed ==
  /\ (resp.op \in {"get_file", "download_file"} /\ resp.status = "not_found") =>
       resp.uuid \notin DOMAIN files
  /\ (resp.op = "get_file" /\ resp.status = "ok") =>
       /\ resp.uuid \in DOMAIN files
       /\ resp.file[1].uuid = resp.uuid
       /\ resp.file[1].deleted = files[resp.uuid].deleted
       /\ resp.file[1].s3_key = files[resp.uuid].s3_key
       /\ resp.file[1].blob \in {Null, files[resp.uuid].blob}
  /\ (resp.op = "download_file" /\ resp.status = "ok") =>
       LET file == files[resp.uuid]
       IN IF storage # "none" /\ Remote(file)
          THEN ConcatBytes(resp.frames) = objects[file.s3_key[1]].data
          ELSE IF Inline(file)
               THEN ConcatBytes(resp.frames) = base64_decode(file.blob[1]).data
               ELSE resp.frames = << >>

\* A deleted Remote record has been downloaded: the stream carries its bytes.
C27_Witness ==
  /\ resp.op = "download_file" /\ resp.status = "ok"
  /\ resp.uuid \in DOMAIN files
  /\ files[resp.uuid].deleted
  /\ Remote(files[resp.uuid])
  /\ resp.frames # << >>

\* A record download_file has no content to serve from: a Remote record
\* while no backend is configured, or a record with neither key nor blob.
Unservable(row) ==
  \/ Remote(row) /\ ~Inline(row) /\ storage = "none"
  \/ ~Remote(row) /\ ~Inline(row)

\* C28: download_file of an existing record it cannot serve calls no backend
\* operation, starts no task, and answers with a successful stream of zero
\* frames, not with an error (short of the database lookup itself failing,
\* which is answered internal).
C28_UnservableEmptyStream ==
  (/\ resp.op = "download_file"
   /\ resp.uuid \in DOMAIN files
   /\ Unservable(files[resp.uuid]))
  => /\ resp.calls = << >>
     /\ ~resp.spawned
     /\ resp.frames = << >>
     /\ resp.status \in {"ok", from_AppError("Database")}

\* A Remote record has been downloaded with no backend configured: an empty
\* successful stream.
C28_Witness ==
  /\ resp.op = "download_file" /\ resp.status = "ok"
  /\ resp.uuid \in DOMAIN files
  /\ Remote(files[resp.uuid])
  /\ storage = "none"
  /\ resp.frames = << >> /\ resp.calls = << >>

(***************************************************************************)
(* The DVR archive.                                                        *)
(***************************************************************************)
\* C29: a dvr_notifications row has a gcs_key exactly when its
\* download_status is 'completed', and that key names an object the storage
\* upload put in the bucket; a row is written only by the UPDATE of a task
\* whose upload under that key had already returned success; when the HTTP
\* fetch or the upload fails the rows are left as they were.
C29_CompletedMeansUploaded ==
  /\ [](\A u \in DOMAIN dvr_rows :
          /\ (dvr_rows[u].download_status = Some("completed")) <=> (dvr_rows[u].gcs_key # Null)
          /\ dvr_rows[u].gcs_key # Null => dvr_rows[u].gcs_key[1] \in DOMAIN objects)
  /\ [][/\ \A u \in DOMAIN dvr_rows :
             dvr_rows'[u] # dvr_rows[u] =>
               /\ dvr_resp' = DvrLog("update", u, "ok")
               /\ dvr_rows'[u].download_status = Some("completed")
               /\ dvr_rows'[u].gcs_key # Null
               /\ dvr_rows'[u].gcs_key[1] \in DOMAIN objects
        /\ (dvr_resp'.op \in {"fetch", "upload"} /\ dvr_resp'.status = "error") =>
             (dvr_rows' = dvr_rows /\ objects' = objects)]_vars

\* An upload has failed and the row of its mp4 is still pending, without key.
C29_Witness ==
  /\ dvr_resp.op = "upload" /\ dvr_resp.status = "error"
  /\ dvr_resp.mp4_url \in DOMAIN dvr_rows
  /\ dvr_rows[dvr_resp.mp4_url].download_status \in PendingStatuses
  /\ dvr_rows[dvr_resp.mp4_url].gcs_key = Null

(***************************************************************************)
(* The auth middleware.                                                    *)
(***************************************************************************)
\* Whether the user of the claims has a row for the organization a text names.
IsMember(claims, text) ==
  /\ uuid_cast(text) # Null
  /\ \E r \in user_organizations :
       r.user_id = claims.sub /\ r.organization_id = uuid_cast(text)[1]

\* Whether two texts name the same organization.
SameOrg(t1, t2) ==
  /\ uuid_cast(t1) # Null
  /\ uuid_cast(t1) = uuid_cast(t2)

ValidJwt(req) == decode(bearer_token(req)) # Null

\* C30: on a non-public path, a request with a valid JWT whose
\* x-organization-id header names an organization other than the token's own,
\* of which the user is not a member, is answered permission_denied and not
\* handed to the inner service; and every request with a valid JWT that is
\* handed on has, as the services read it, an organization that is the
\* token's own or one the user is a member of.
C30_ForeignOrgDenied ==
  auth_resp.op = "call" /\ auth_resp.req.path \notin PUBLIC_PATHS /\ ValidJwt(auth_resp.req) =>
    LET req == auth_resp.req
        claims == decode(bearer_token(req))[1]
        named == header_str(req.org_header)
    IN /\ (/\ named # Null
           /\ ~SameOrg(named[1], claims.org)
           /\ ~IsMember(claims, named[1]))
          => auth_resp.status = "permission_denied" /\ auth_resp.forwarded = Null
       /\ auth_resp.forwarded # Null =>
            LET effective == get_organization_from_request(auth_resp.forwarded[1])
            IN SameOrg(effective, claims.org) \/ IsMember(claims, effective)

\* A valid JWT of a user of OrgA alone asked for OrgB and was denied.
C30_Witness ==
  /\ auth_resp.op = "call" /\ auth_resp.status = "permission_denied"
  /\ ValidJwt(auth_resp.req)
  /\ header_str(auth_resp.req.org_header) = Some(OrgB)
  /\ decode(bearer_token(auth_resp.req))[1].org = OrgA
  /\ ~IsMember(decode(bearer_token(auth_resp.req))[1], OrgB)

====
